---- MODULE Spec2Model ----
(***************************************************************************)
(* Model of the ai-interview-analyzer backend (server.js: the POST         *)
(* /analyze handler, uploadFileToGemini and the JSON extraction).          *)
(*                                                                         *)
(* Texts are sequences of lexemes.  A lexeme is a record [k, s, n]: its    *)
(* kind, its characters and, for a number, its value.  The regular         *)
(* expression of the handler and JSON.parse / JSON.stringify work on these *)
(* sequences.                                                              *)
(***************************************************************************)
EXTENDS Integers, Sequences, FiniteSets, TLC

(***************************************************************************)
(* Lexemes                                                                 *)
(***************************************************************************)
Tok(k, s, n) == [k |-> k, s |-> s, n |-> n]

\* The three backquotes that open and close a fenced block.
Fence == Tok("fence", "BACKQUOTES", 0)
Lang == Tok("word", "json", 0)
NL == Tok("ws", "\n", 0)
SP == Tok("ws", " ", 0)
LBrace == Tok("punct", "{", 0)
RBrace == Tok("punct", "}", 0)
Colon == Tok("punct", ":", 0)
Comma == Tok("punct", ",", 0)
Word(s) == Tok("word", s, 0)
StrTok(s) == Tok("string", s, 0)
NumTok(n) == Tok("num", "", n)

(***************************************************************************)
(* JSON values: a number, a string, or an object whose members are kept in *)
(* insertion order, as a JavaScript object keeps them.                     *)
(***************************************************************************)
JNum(n) == [t |-> "num", n |-> n, s |-> "", m |-> <<>>]
JStr(s) == [t |-> "str", n |-> 0, s |-> s, m |-> <<>>]
JObj(m) == [t |-> "obj", n |-> 0, s |-> "", m |-> m]
Member(k, v) == [k |-> k, v |-> v]

HasKey(m, k) == \E i \in 1..Len(m) : m[i].k = k

\* obj[k] = v on a JavaScript object: a key already present keeps its place.
ObjSet(m, k, v) ==
    IF HasKey(m, k)
    THEN [i \in 1..Len(m) |-> IF m[i].k = k THEN Member(k, v) ELSE m[i]]
    ELSE Append(m, Member(k, v))

(***************************************************************************)
(* JSON.parse on a lexeme sequence.  Every parser step answers             *)
(* [ok, val, pos]: whether it succeeded, the value, the next position.     *)
(***************************************************************************)
ParseFail == [ok |-> FALSE, val |-> JNum(0), pos |-> 0]
ParseOk(v, p) == [ok |-> TRUE, val |-> v, pos |-> p]

RECURSIVE SkipWs(_, _)
SkipWs(toks, i) ==
    IF i <= Len(toks) /\ toks[i].k = "ws" THEN SkipWs(toks, i + 1) ELSE i

IsTok(toks, i, t) == i <= Len(toks) /\ toks[i] = t

RECURSIVE ParseValue(_, _)
RECURSIVE ParseMembers(_, _, _)

\* i is the position of a key; acc holds the members read so far.
ParseMembers(toks, i, acc) ==
    IF ~(i <= Len(toks) /\ toks[i].k = "string") THEN ParseFail
    ELSE LET c == SkipWs(toks, i + 1) IN
         IF ~IsTok(toks, c, Colon) THEN ParseFail
         ELSE LET r == ParseValue(toks, SkipWs(toks, c + 1)) IN
              IF ~r.ok THEN ParseFail
              ELSE LET acc2 == ObjSet(acc, toks[i].s, r.val)
                       e == SkipWs(toks, r.pos)
                   IN  IF IsTok(toks, e, RBrace) THEN ParseOk(JObj(acc2), e + 1)
                       ELSE IF IsTok(toks, e, Comma)
                            THEN ParseMembers(toks, SkipWs(toks, e + 1), acc2)
                            ELSE ParseFail

\* i is the position of the value's first lexeme (white space skipped).
ParseValue(toks, i) ==
    IF i > Len(toks) THEN ParseFail
    ELSE IF toks[i].k = "num" THEN ParseOk(JNum(toks[i].n), i + 1)
    ELSE IF toks[i].k = "string" THEN ParseOk(JStr(toks[i].s), i + 1)
    ELSE IF toks[i] = LBrace
         THEN LET j == SkipWs(toks, i + 1) IN
              IF IsTok(toks, j, RBrace) THEN ParseOk(JObj(<<>>), j + 1)
              ELSE ParseMembers(toks, j, <<>>)
    ELSE ParseFail

\* JSON.parse(text): one value, white space around it, nothing else.
JSONParse(toks) ==
    LET r == ParseValue(toks, SkipWs(toks, 1)) IN
    IF r.ok /\ SkipWs(toks, r.pos) = Len(toks) + 1
    THEN [ok |-> TRUE, val |-> r.val]
    ELSE [ok |-> FALSE, val |-> JNum(0)]

(***************************************************************************)
(* JSON.stringify, and the layouts in which a model may write a value.     *)
(* style "compact" is JSON.stringify; "spaced" puts a blank after ':' and  *)
(* ','; "pretty" puts every member on a line of its own.                   *)
(***************************************************************************)
AfterOpen(style) == IF style = "pretty" THEN <<NL>> ELSE <<>>
AfterColon(style) == IF style = "compact" THEN <<>> ELSE <<SP>>
AfterComma(style) ==
    IF style = "pretty" THEN <<NL>> ELSE IF style = "spaced" THEN <<SP>> ELSE <<>>

RECURSIVE Format(_, _)
RECURSIVE FormatMembers(_, _, _)

FormatMembers(m, i, style) ==
    IF i > Len(m) THEN <<>>
    ELSE <<StrTok(m[i].k), Colon>> \o AfterColon(style) \o Format(m[i].v, style)
         \o (IF i < Len(m) THEN <<Comma>> \o AfterComma(style) ELSE <<>>)
         \o FormatMembers(m, i + 1, style)

Format(v, style) ==
    IF v.t = "num" THEN <<NumTok(v.n)>>
    ELSE IF v.t = "str" THEN <<StrTok(v.s)>>
    ELSE IF Len(v.m) = 0 THEN <<LBrace, RBrace>>
    ELSE <<LBrace>> \o AfterOpen(style) \o FormatMembers(v.m, 1, style)
         \o AfterOpen(style) \o <<RBrace>>

JSONStringify(v) == Format(v, "compact")

(***************************************************************************)
(* analysisText.match(/<fence>json\n([\s\S]*?)\n<fence>/), <fence> being   *)
(* three backquotes: the leftmost position where the opening delimiter     *)
(* starts and a closing delimiter follows; the group is lazy, so it ends   *)
(* at the first closing delimiter.                                         *)
(***************************************************************************)
OpensAt(text, i) ==
    /\ i + 2 <= Len(text)
    /\ text[i] = Fence /\ text[i + 1] = Lang /\ text[i + 2] = NL

ClosesAt(text, j) ==
    /\ j + 1 <= Len(text)
    /\ text[j] = NL /\ text[j + 1] = Fence

\* The positions at which the whole pattern can match.
MatchStarts(text) ==
    {i \in 1..Len(text) :
        OpensAt(text, i) /\ \E j \in (i + 3)..Len(text) : ClosesAt(text, j)}

Minimum(S) == CHOOSE x \in S : \A y \in S : x <= y

Maximum(S) == CHOOSE x \in S : \A y \in S : x >= y

\* Mutant: a greedy group, which ends at the last closing delimiter.
GroupEndGreedy(text, i) == Maximum({j \in (i + 3)..Len(text) : ClosesAt(text, j)})

GroupEnd(text, i) == Minimum({j \in (i + 3)..Len(text) : ClosesAt(text, j)})

\* [matched, group]: jsonMatch !== null, and jsonMatch[1].
JsonMatch(text) ==
    IF MatchStarts(text) = {} THEN [matched |-> FALSE, group |-> <<>>]
    ELSE LET i == Minimum(MatchStarts(text)) IN
         [matched |-> TRUE, group |-> SubSeq(text, i + 3, GroupEnd(text, i) - 1)]

(***************************************************************************)
(* The payload the prompt asks for, and the texts the model may answer.    *)
(***************************************************************************)
Category(score, reasoning) ==
    JObj(<<Member("score", JNum(score)), Member("reasoning", JStr(reasoning))>>)

AnalysisResult(e, c, h) ==
    JObj(<<Member("english_speaking", Category(e, "clear")),
           Member("confidence", Category(c, "steady")),
           Member("humility", Category(h, "grounded")),
           Member("overall_summary", JStr("Strong communicator."))>>)

ExamplePayload == AnalysisResult(7, 8, 9)

OpenDelim == <<Fence, Lang, NL>>
CloseDelim == <<NL, Fence>>
Fenced(inner) == OpenDelim \o inner \o CloseDelim

\* The example text of the specification: prefix, fenced payload, suffix.
ExampleText ==
    <<Word("prefix"), SP>> \o Fenced(Format(ExamplePayload, "compact") \o <<SP>>)
    \o <<SP, Word("suffix")>>

\* A valid JSON object that lacks most of the fields of an AnalysisResult.
PartialPayload == JObj(<<Member("confidence", Category(8, "steady"))>>)

(***************************************************************************)
(* What the remote model answers: the text, and how the text was made.  A  *)
(* wrapping answer is prefix, opening delimiter, a layout of the payload,  *)
(* closing delimiter, suffix; any other answer is just its text.           *)
(***************************************************************************)
NoPayload == JNum(0)

Raw(text) ==
    [wraps |-> FALSE, prefix |-> <<>>, payload |-> NoPayload, suffix |-> <<>>,
     text |-> text]

Wrap(prefix, payload, style, suffix) ==
    [wraps |-> TRUE, prefix |-> prefix, payload |-> payload, suffix |-> suffix,
     text |-> prefix \o Fenced(Format(payload, style)) \o suffix]

NoAnswer == [wraps |-> FALSE, prefix |-> <<>>, payload |-> NoPayload, suffix |-> <<>>,
             text |-> <<>>]

\* The example text of the specification has a blank after the payload.
ExampleAnswer ==
    [Wrap(<<Word("prefix"), SP>>, ExamplePayload, "compact", <<SP, Word("suffix")>>)
        EXCEPT !.text = ExampleText]

ServiceAnswers ==
    { ExampleAnswer,
      Raw(Format(ExamplePayload, "compact")),
      Raw(Fenced(<<LBrace, StrTok("confidence")>>)),
      Wrap(<<>>, PartialPayload, "compact", <<>>) }

(***************************************************************************)
(* The server.  req[r] is the state of the handler invocation of request   *)
(* r; disk is the uploads/ directory, remote the files held by the remote  *)
(* service, process the Node.js process; form is the state of the App     *)
(* component in the browser.                                               *)
(***************************************************************************)
VARIABLES req, disk, remote, process, form

vars == <<req, disk, remote, process, form>>

Reqs == {"r1", "r2"}

\* The states a remote file reports (FileState of the remote service's SDK).
RemoteStates == {"PROCESSING", "ACTIVE", "FAILED", "STATE_UNSPECIFIED"}

NoFile == [name |-> 0, state |-> "none"]
NoResponse == [status |-> 0, body |-> <<>>]
NoCalls == [uploadFile |-> 0, getFile |-> 0, generateContent |-> 0, deleteFile |-> 0]

\* The number of state queries the model tells apart: getFile calls are
\* counted up to this number and no further.
MaxPolls == 1

ErrorBody(msg) == JSONStringify(JObj(<<Member("error", JStr(msg))>>))
NoFileBody == ErrorBody("No video file uploaded.")
FailedBody == ErrorBody("Failed to analyze the video. Please check the server logs.")

\* The response of Express's default error handler: status 500, an error page.
DefaultError == [status |-> 500, body |-> <<Word("MulterError: Unexpected field")>>]

InitReq ==
    [ pc |-> "idle",             \* where the handler is suspended
      hasFile |-> FALSE,         \* req.file
      created |-> 0,             \* temporary files multer stored for the request
      tempFilePath |-> 0,
      videoFile |-> NoFile,      \* the file object of uploadFileToGemini
      remoteAnswer |-> "none",   \* what the remote service last answered about the file
      answer |-> NoAnswer,       \* the remote model's answer; its text is analysisText
      gotText |-> FALSE,         \* generateContent has returned a text
      res |-> NoResponse,        \* the response the client received
      sends |-> 0,               \* calls of res.json
      parses |-> 0,              \* calls of JSON.parse
      unlinks |-> 0,             \* temporary files removed by fs.unlinkSync
      calls |-> NoCalls,         \* remote calls issued
      errors |-> <<>>,           \* what logger.error recorded
      steps |-> <<>>,            \* the steps of the flow, in the order they ran
      thrown |-> FALSE ]         \* an exception is propagating

\* JavaScript's null, and a File object of the file input.
Null == [t |-> "null", n |-> 0, s |-> "", m |-> <<>>]
File(name) == [t |-> "file", n |-> 0, s |-> name, m |-> <<>>]

\* The useState initial values; pending holds the invocations of
\* handleSubmit that are suspended at an await.
InitForm ==
    [ selectedFile |-> Null,
      analysisResult |-> Null,
      isLoading |-> FALSE,
      error |-> Null,
      fileName |-> "",
      resultOf |-> Null,         \* the file whose upload analysisResult answers
      pending |-> <<>> ]

Init ==
    /\ form = InitForm
    /\ req = [r \in Reqs |-> InitReq]
    /\ disk = {}
    /\ remote = {}
    /\ process \in {[alive |-> TRUE, exitOnRejection |-> b, stored |-> 0, uploaded |-> 0] :
                      b \in BOOLEAN}

\* The handler's view: its own request and the shared resources.
Ctx(r) == [q |-> req[r], disk |-> disk, remote |-> remote, process |-> process]

Commit(r, c) ==
    /\ req' = [req EXCEPT ![r] = c.q]
    /\ disk' = c.disk
    /\ remote' = c.remote
    /\ process' = c.process
    /\ form' = form

(***************************************************************************)
(* The pieces of the handler.  Each takes the handler's view c and answers *)
(* the view after the statements it models have run.                       *)
(***************************************************************************)
\* The step of the flow that a remote operation belongs to.
StepOf(op) ==
    CASE op = "uploadFile" -> "upload"
      [] op = "getFile" -> "poll"
      [] op = "generateContent" -> "generate"
      [] op = "deleteFile" -> "release"

\* Record a step; the repeated queries of the poll loop are one step.
Log(steps, step) ==
    IF steps # <<>> /\ steps[Len(steps)] = step THEN steps ELSE Append(steps, step)

\* res.status(status).json(body): a second response on the same request
\* throws ERR_HTTP_HEADERS_SENT.
SendJson(q, status, body) ==
    IF q.res.status # 0
    THEN [q EXCEPT !.sends = @ + 1, !.thrown = TRUE]
    ELSE [q EXCEPT !.sends = @ + 1, !.res = [status |-> status, body |-> body],
                   !.steps = Log(@, "respond")]

\* Mutant: the error response tells the cause.
CatchTellingCause(c, cause) ==
    LET q1 == [c.q EXCEPT !.errors = Append(@, cause), !.thrown = FALSE]
    IN  [c EXCEPT !.q = SendJson(q1, 500, ErrorBody(cause))]

\* catch (error) { logger.error(...); res.status(500).json(...) }
Catch(c, cause) ==
    LET q1 == [c.q EXCEPT !.errors = Append(@, cause), !.thrown = FALSE]
    IN  [c EXCEPT !.q = SendJson(q1, 500, FailedBody)]

\* Mutant: the temporary file is left behind.
FinallyKeepingFile(c) == c

\* finally { fs.unlinkSync(tempFilePath) }: ENOENT when the file is gone.
Finally(c) ==
    IF c.q.tempFilePath \in c.disk
    THEN [c EXCEPT !.q.unlinks = @ + 1, !.disk = @ \ {c.q.tempFilePath},
                   !.q.steps = Log(@, "cleanup")]
    ELSE [c EXCEPT !.q.thrown = TRUE]

\* The handler returns, or its promise rejects; nothing handles the
\* rejection, and a process that exits on unhandled rejections exits.
End(c) ==
    IF c.q.thrown
    THEN [c EXCEPT !.q.pc = "rejected",
                   !.process.alive = ~c.process.exitOnRejection]
    ELSE [c EXCEPT !.q.pc = "done"]

\* Mutant: no finally block, the cleanup runs on the success path only.
ThrowWithoutFinally(c, cause) == End(Catch(c, cause))

\* Mutant: the temporary file is removed before the error is answered.
ThrowCleaningFirst(c, cause) == End(Catch(Finally(c), cause))

\* An exception thrown inside the try block.
Throw(c, cause) == End(Finally(Catch(c, cause)))

\* Call a remote operation and suspend until it settles.
Await(c, op) ==
    [c EXCEPT !.q.pc = op,
              !.q.steps = Log(@, StepOf(op)),
              !.q.calls[op] = IF op = "getFile" /\ @ >= MaxPolls THEN @ ELSE @ + 1]

\* Mutant: the test for FAILED is missing.
PollLoopIgnoringFailed(c) ==
    IF c.q.videoFile.state = "PROCESSING" THEN [c EXCEPT !.q.pc = "sleep"]
    ELSE Await(c, "generateContent")

\* Mutant: the loop gives up after MaxPolls state queries.
PollLoopWithDeadline(c) ==
    IF c.q.videoFile.state = "PROCESSING"
    THEN IF c.q.calls.getFile >= MaxPolls THEN Throw(c, "timeout")
         ELSE [c EXCEPT !.q.pc = "sleep"]
    ELSE IF c.q.videoFile.state = "FAILED" THEN Throw(c, "failed")
    ELSE Await(c, "generateContent")

\* The loop of uploadFileToGemini from its test on, and the handler up to
\* the generation request.
PollLoop(c) ==
    IF c.q.videoFile.state = "PROCESSING" THEN [c EXCEPT !.q.pc = "sleep"]
    ELSE IF c.q.videoFile.state = "FAILED" THEN Throw(c, "failed")
    ELSE Await(c, "generateContent")

\* Mutant: a text without the delimiter is parsed as a whole.
ExtractWithFallback(c, analysisText) ==
    LET c1 == [c EXCEPT !.q.gotText = TRUE]
        jsonMatch == JsonMatch(analysisText)
        rawJson == IF jsonMatch.matched THEN jsonMatch.group ELSE analysisText
        analysisJson == JSONParse(rawJson)
        c2 == [c1 EXCEPT !.q.parses = @ + 1]
    IN  IF ~analysisJson.ok THEN Throw(c2, "parse")
        ELSE Await([c2 EXCEPT !.q = SendJson(@, 200, JSONStringify(analysisJson.val))],
                   "deleteFile")

\* From the model's text to the response and the remote delete.
Extract(c, analysisText) ==
    LET c1 == [c EXCEPT !.q.gotText = TRUE, !.q.steps = Log(@, "extract")]
        jsonMatch == JsonMatch(analysisText)
    IN  IF ~jsonMatch.matched \/ jsonMatch.group = <<>> THEN Throw(c1, "format")
        ELSE LET analysisJson == JSONParse(jsonMatch.group)
                 c2 == [c1 EXCEPT !.q.parses = @ + 1]
             IN  IF ~analysisJson.ok THEN Throw(c2, "parse")
                 ELSE LET c3 == [c2 EXCEPT
                                   !.q = SendJson(@, 200, JSONStringify(analysisJson.val))]
                      IN  IF c3.q.thrown THEN Throw(c3, "send")
                          ELSE Await(c3, "deleteFile")

(***************************************************************************)
(* Actions: the arrival of a request and the settling of each await.       *)
(***************************************************************************)
\* What a request carries: a file in the field 'video', no file at all, or
\* a file in a field of another name.
UploadKinds == {"video", "none", "other"}

\* upload.single('video') stores the file of the field 'video' under a fresh
\* name; it refuses a file in any other field (MulterError, unexpected
\* field) without storing it, and then the handler is not called: Express
\* answers with its default error response.
Receive(r) ==
    /\ process.alive
    /\ req[r].pc = "idle"
    /\ \E kind \in UploadKinds :
         LET c == Ctx(r) IN
         IF kind = "other"
         THEN Commit(r, [c EXCEPT !.q.pc = "refused", !.q.res = DefaultError])
         ELSE IF kind = "none"
         THEN Commit(r, End([c EXCEPT !.q = SendJson(@, 400, NoFileBody)]))
         ELSE LET path == c.process.stored + 1
                  c1 == [c EXCEPT !.process.stored = path,
                                  !.disk = @ \cup {path},
                                  !.q.hasFile = TRUE,
                                  !.q.created = @ + 1,
                                  !.q.tempFilePath = path]
              IN  Commit(r, Await(c1, "uploadFile"))

UploadReturns(r) ==
    /\ process.alive
    /\ req[r].pc = "uploadFile"
    /\ \E ans \in RemoteStates \cup {"error"} :
         LET c == [Ctx(r) EXCEPT !.q.remoteAnswer = ans] IN
         IF ans = "error" THEN Commit(r, Throw(c, "upload"))
         ELSE LET name == c.process.uploaded + 1
                  c1 == [c EXCEPT !.process.uploaded = name,
                                  !.remote = @ \cup {name},
                                  !.q.videoFile = [name |-> name, state |-> ans]]
              IN  Commit(r, PollLoop(c1))

TimerFires(r) ==
    /\ process.alive
    /\ req[r].pc = "sleep"
    /\ Commit(r, Await(Ctx(r), "getFile"))

GetFileReturns(r) ==
    /\ process.alive
    /\ req[r].pc = "getFile"
    /\ \E ans \in RemoteStates \cup {"error"} :
         LET c == [Ctx(r) EXCEPT !.q.remoteAnswer = ans] IN
         IF ans = "error" THEN Commit(r, Throw(c, "poll"))
         ELSE Commit(r, PollLoop([c EXCEPT !.q.videoFile.state = ans]))

GenerateFails(r) ==
    /\ process.alive
    /\ req[r].pc = "generateContent"
    /\ Commit(r, Throw(Ctx(r), "generate"))

GenerateReturns(r, answers) ==
    /\ process.alive
    /\ req[r].pc = "generateContent"
    /\ \E a \in answers :
         Commit(r, Extract([Ctx(r) EXCEPT !.q.answer = a], a.text))

DeleteReturns(r) ==
    /\ process.alive
    /\ req[r].pc = "deleteFile"
    /\ \E ok \in BOOLEAN :
         LET c == Ctx(r) IN
         IF ok
         THEN Commit(r, End(Finally([c EXCEPT !.remote = @ \ {c.q.videoFile.name}])))
         ELSE Commit(r, Throw(c, "delete"))

Next ==
    \E r \in Reqs :
        \/ Receive(r)
        \/ UploadReturns(r)
        \/ TimerFires(r)
        \/ GetFileReturns(r)
        \/ GenerateFails(r)
        \/ GenerateReturns(r, ServiceAnswers)
        \/ DeleteReturns(r)

Spec == Init /\ [][Next]_vars

\* What makes a suspended handler go on: its timer fires, or the remote call
\* it awaits settles.
Resumes(r) ==
    \/ UploadReturns(r)
    \/ TimerFires(r)
    \/ GetFileReturns(r)
    \/ GenerateFails(r)
    \/ GenerateReturns(r, ServiceAnswers)
    \/ DeleteReturns(r)

\* The event loop fires due timers, and the remote calls settle.
Fairness == \A r \in Reqs : WF_vars(Resumes(r))

FairSpec == Spec /\ Fairness

(***************************************************************************)
(* One request whose model answers with any text of a bounded set: every   *)
(* short text over the alphabet, the bare payload the prompt asks for, and *)
(* the payload wrapped in the delimiter after any short prefix.            *)
(***************************************************************************)
MaxTextLen == 5
MaxPrefixLen == 3

Alphabet == {Fence, Lang, NL, NumTok(8)}

SeqsUpTo(S, n) == UNION {[1..k -> S] : k \in 0..n}

Prefixes == SeqsUpTo(Alphabet, MaxPrefixLen) \cup {Fenced(<<NumTok(8)>>) \o <<NL>>}

Suffixes == {<<>>, <<Word("x")>>, CloseDelim, <<NL>> \o Fenced(<<NumTok(8)>>)}

Styles == {"compact", "spaced", "pretty"}

ExtractAnswers ==
    {Raw(t) : t \in SeqsUpTo(Alphabet, MaxTextLen)}
    \cup {Raw(Format(ExamplePayload, st)) : st \in Styles}
    \cup {ExampleAnswer}
    \cup {Wrap(pre, ExamplePayload, st, suf) :
            pre \in Prefixes, st \in Styles, suf \in Suffixes}

ExtractNext ==
    \/ Receive("r1")
    \/ UploadReturns("r1")
    \/ TimerFires("r1")
    \/ GetFileReturns("r1")
    \/ GenerateFails("r1")
    \/ GenerateReturns("r1", ExtractAnswers)
    \/ DeleteReturns("r1")

ExtractSpec == Init /\ [][ExtractNext]_vars

(***************************************************************************)
(* Properties                                                              *)
(***************************************************************************)
Finished(r) == req[r].pc \in {"done", "rejected"}
InPollLoop(r) == req[r].pc \in {"sleep", "getFile"}
Uploaded(r) == req[r].videoFile # NoFile
Failed500 == [status |-> 500, body |-> FailedBody]
LoggedCause(r) == IF req[r].errors = <<>> THEN "none" ELSE req[r].errors[1]

\* The failures C1, C2 and C7 list.
ListedCauses == {"upload", "poll", "failed", "generate", "format", "parse"}

\* C1: a request that carried a file never has its temporary file deleted
\* twice, and once its handler has finished, on whatever path, the file has
\* been deleted exactly once and is gone.
C1_TempDeletedExactlyOnce ==
    \A r \in Reqs :
        req[r].hasFile =>
            /\ req[r].created = 1
            /\ req[r].unlinks <= 1
            /\ Finished(r) => req[r].unlinks = 1 /\ req[r].tempFilePath \notin disk

\* One request finished with the 200 and the other on a failure path.
C1_Witness ==
    /\ req["r1"].hasFile /\ req["r1"].pc = "done" /\ req["r1"].res.status = 200
    /\ req["r2"].hasFile /\ Finished("r2") /\ LoggedCause("r2") \in ListedCauses
    /\ req["r1"].unlinks = 1 /\ req["r2"].unlinks = 1

\* C2: once the remote upload has succeeded, the deletion of the remote file
\* has been attempted by the time the handler finishes, on every path.
C2_RemoteDeleteAttempted ==
    \A r \in Reqs :
        Finished(r) /\ Uploaded(r) => req[r].calls.deleteFile >= 1

\* C3: a request without the 'video' field gets the 400 with the fixed body;
\* no temporary file is created or deleted and no remote call is made.
C3_MissingFile ==
    \A r \in Reqs :
        req[r].pc # "idle" /\ ~req[r].hasFile =>
            /\ req[r].res = [status |-> 400, body |-> NoFileBody]
            /\ req[r].created = 0 /\ req[r].unlinks = 0
            /\ req[r].calls = NoCalls
            /\ req[r].videoFile = NoFile

\* C4: when the remote file state is FAILED, at upload time or at a poll, the
\* response is the 500 and no generation request is issued.
C4_FailedState ==
    \A r \in Reqs :
        req[r].videoFile.state = "FAILED" =>
            /\ req[r].res = Failed500
            /\ req[r].calls.generateContent = 0
            /\ Finished(r)

\* One request saw FAILED in the upload result, the other at a poll.
C4_Witness ==
    /\ req["r1"].videoFile.state = "FAILED" /\ req["r1"].calls.getFile = 0
    /\ req["r2"].videoFile.state = "FAILED" /\ req["r2"].calls.getFile >= 1

\* What a request stuck in the poll loop holds: no response, the loop not
\* left, the temporary file and the remote file not released.
Hanging(r) ==
    /\ InPollLoop(r)
    /\ req[r].res = NoResponse /\ req[r].sends = 0
    /\ req[r].tempFilePath \in disk /\ req[r].unlinks = 0
    /\ req[r].videoFile.name \in remote /\ req[r].calls.deleteFile = 0

C6_GoneOnceSent ==
    \A r \in Reqs :
        req[r].res.status = 200 => req[r].tempFilePath \notin disk

\* C6 amended: in every state in which the 200 has been sent and the handler
\* has finished, the temporary file of the request no longer exists.
C6_GoneOnceFinished ==
    \A r \in Reqs :
        req[r].res.status = 200 /\ Finished(r) =>
            req[r].tempFilePath \notin disk /\ req[r].unlinks = 1

\* Both ends of a successful flow: the remote delete succeeded, or failed.
C6_Witness ==
    /\ req["r1"].res.status = 200 /\ req["r1"].pc = "done"
    /\ req["r2"].res.status = 200 /\ req["r2"].pc = "rejected"

\* C7: every listed failure after a file was received yields the 500 with the
\* one fixed body, so two requests failing at different steps get identical
\* responses.
C7_OneGenericError ==
    /\ \A r \in Reqs :
           LoggedCause(r) \in ListedCauses =>
               req[r].hasFile /\ req[r].res = Failed500 /\ req[r].sends = 1
    /\ \A r1, r2 \in Reqs :
           LoggedCause(r1) \in ListedCauses /\ LoggedCause(r2) \in ListedCauses =>
               req[r1].res = req[r2].res

\* Two requests failed at different steps.
C7_Witness ==
    /\ LoggedCause("r1") = "upload"
    /\ LoggedCause("r2") = "parse"
    /\ req["r1"].res.status = 500 /\ req["r2"].res.status = 500

\* C8: a failure of the remote delete after a successful analysis is only
\* logged: the client has the 200, no error response is produced for the
\* request, and nothing escapes the handler.
C8_DeleteFailureNotEscalated ==
    \A r \in Reqs :
        LoggedCause(r) = "delete" =>
            /\ req[r].res.status = 200
            /\ req[r].sends = 1
            /\ req[r].pc = "done"

\* Whether the text contains the pattern of the regular expression.
ContainsDelimiter(text) ==
    \E i \in 1..Len(text) :
        OpensAt(text, i) /\ \E j \in (i + 3)..Len(text) : ClosesAt(text, j)

ContainsOpening(text) == \E i \in 1..Len(text) : OpensAt(text, i)

\* C9: for a model text without the fenced-block pattern, a bare well-formed
\* payload included, the response is the 500 and JSON.parse is not called.
C9_NoDelimiter ==
    \A r \in Reqs :
        req[r].gotText /\ ~ContainsDelimiter(req[r].answer.text) =>
            req[r].res = Failed500 /\ req[r].parses = 0 /\ Finished(r)

\* The model answered the bare payload, as the prompt asks.
C9_Witness ==
    /\ req["r1"].gotText
    /\ req["r1"].answer.text = Format(ExamplePayload, "compact")
    /\ JSONParse(req["r1"].answer.text).ok
    /\ req["r1"].res.status = 500

\* obj[k] of an object that has the key.
Get(obj, k) == obj.m[CHOOSE i \in 1..Len(obj.m) : obj.m[i].k = k].v

RoundTrips(r) ==
    /\ req[r].res.status = 200
    /\ req[r].res.body = JSONStringify(req[r].answer.payload)
    /\ JSONParse(req[r].res.body) = [ok |-> TRUE, val |-> req[r].answer.payload]

\* C10 as stated: for a text that wraps a well-formed payload in the fenced
\* delimiter, whatever the prefix and the suffix, the 200 response body equals
\* the payload field for field.
C10_RoundTripAnyPrefix ==
    \A r \in Reqs :
        req[r].gotText /\ req[r].answer.wraps => RoundTrips(r)

\* C10 amended: the same for a prefix that does not contain the opening
\* delimiter, and any suffix.
C10_RoundTrip ==
    \A r \in Reqs :
        req[r].gotText /\ req[r].answer.wraps
            /\ ~ContainsOpening(req[r].answer.prefix) => RoundTrips(r)

\* The example of the specification: confidence.score is 8.
C10_Witness ==
    /\ req["r1"].gotText
    /\ req["r1"].answer = ExampleAnswer
    /\ req["r1"].res.status = 200
    /\ Get(Get(JSONParse(req["r1"].res.body).val, "confidence"), "score") = JNum(8)

\* Whether a JSON value has the shape of an AnalysisResult: the three
\* categories, each an object with score and reasoning, and overall_summary.
IsCategory(v) == v.t = "obj" /\ HasKey(v.m, "score") /\ HasKey(v.m, "reasoning")

IsAnalysisResult(v) ==
    /\ v.t = "obj"
    /\ \A k \in {"english_speaking", "confidence", "humility"} :
           HasKey(v.m, k) /\ IsCategory(Get(v, k))
    /\ HasKey(v.m, "overall_summary")

\* C11: every 200 response has a body with english_speaking, confidence and
\* humility, each with score and reasoning, and overall_summary; a valid JSON
\* payload that lacks one of them never results in a 200.
C11_ResponseShape ==
    \A r \in Reqs :
        req[r].res.status = 200 =>
            /\ JSONParse(req[r].res.body).ok
            /\ IsAnalysisResult(JSONParse(req[r].res.body).val)

\* C12: a generation request has been issued only for a file whose last
\* observed state is exactly ACTIVE.
C12_GenerateOnlyWhenActive ==
    \A r \in Reqs :
        req[r].calls.generateContent >= 1 => req[r].videoFile.state = "ACTIVE"

\* C16: at most one response is written per request, the handler never tries
\* to send a second one, and no exception escapes the handler.
C16_OneResponse ==
    \A r \in Reqs :
        /\ req[r].sends <= 1
        /\ req[r].pc # "rejected"
        /\ ~req[r].thrown

\* The place of each step in the flow of one request.
Rank(step) ==
    CASE step = "upload" -> 1
      [] step = "poll" -> 2
      [] step = "generate" -> 3
      [] step = "extract" -> 4
      [] step = "respond" -> 5
      [] step = "release" -> 6
      [] step = "cleanup" -> 7

InOrder(steps) ==
    \A i, j \in 1..Len(steps) : i < j => Rank(steps[i]) < Rank(steps[j])

LastStep(r) == IF req[r].steps = <<>> THEN "none" ELSE req[r].steps[Len(req[r].steps)]

\* C14: for a request that carried a file the steps run only in the order
\* upload, poll, generate, extract, respond, cleanup, one at a time; after a
\* failure at any step the cleanup still runs and is the last step; and once
\* the handler has finished nothing of the request changes any more.
C14_StepOrder ==
    /\ [](\A r \in Reqs :
            req[r].hasFile =>
                /\ InOrder(req[r].steps)
                /\ req[r].steps[1] = "upload"
                /\ req[r].errors # <<>> => Finished(r) /\ "respond" \in
                       {req[r].steps[i] : i \in 1..Len(req[r].steps)}
                /\ Finished(r) => LastStep(r) = "cleanup")
    /\ [][\A r \in Reqs : Finished(r) => req'[r] = req[r]]_vars

\* One request went through every step, the other failed while polling.
C14_Witness ==
    /\ req["r1"].steps =
           <<"upload", "poll", "generate", "extract", "respond", "release", "cleanup">>
    /\ req["r2"].steps = <<"upload", "poll", "respond", "cleanup">>

\* The handler of a request has ended with one answer of status 200 or 500
\* and with its temporary file removed.
Terminated(r) ==
    /\ Finished(r)
    /\ req[r].res.status \in {200, 500}
    /\ req[r].unlinks = 1
    /\ req[r].tempFilePath \notin disk

\* The remote state of the file of a request stops being PROCESSING.
LeavesProcessing(r) == <>[](req[r].remoteAnswer # "PROCESSING")

\* The poll loop has seen a state that ends it.
ObservedFinal(r) == req[r].videoFile.state \in {"ACTIVE", "FAILED"}

\* C13: if the remote state of its file eventually leaves PROCESSING, and
\* every remote call settles, a request that carried a file eventually
\* terminates with a 200 or a 500 sent and its temporary file deleted; and
\* once the poller has observed ACTIVE or FAILED it queries the state no more.
C13_Terminates ==
    /\ \A r \in Reqs :
           LeavesProcessing(r) => [](req[r].hasFile => <>Terminated(r))
    /\ [][\A r \in Reqs :
              ObservedFinal(r) => req'[r].calls.getFile = req[r].calls.getFile]_vars

\* A request is being handled: its handler is suspended at a remote call or
\* at the timer of the poll loop.
InFlight(q) ==
    q.pc \in {"uploadFile", "sleep", "getFile", "generateContent", "deleteFile"}

\* Requests that carried a file have temporary files, and remote files, of
\* their own.
DistinctFiles ==
    \A r1, r2 \in Reqs :
        (r1 # r2 /\ req[r1].hasFile /\ req[r2].hasFile) =>
            /\ req[r1].tempFilePath # req[r2].tempFilePath
            /\ (req[r1].videoFile # NoFile /\ req[r2].videoFile # NoFile) =>
                   req[r1].videoFile.name # req[r2].videoFile.name

\* A step of the handler of request r removes no file but those of r.
DeletesOwnOnly(r) ==
    /\ disk \ disk' \subseteq {req[r].tempFilePath}
    /\ remote \ remote' \subseteq {req'[r].videoFile.name}

\* A step of the handler of request r leaves every other request as it was,
\* and able to go on if it was being handled.
LeavesOthers(r) ==
    \A o \in Reqs \ {r} :
        /\ req'[o] = req[o]
        /\ (process.alive /\ InFlight(req[o])) => process'.alive

\* C15: requests handled concurrently and interleaved at every suspension
\* point have distinct temporary files, each deletes only its own temporary
\* file and its own remote file, and no step of one request changes another
\* request or its ability to produce its response.
C15_Isolation ==
    /\ []DistinctFiles
    /\ [][\A r \in Reqs :
              req'[r] # req[r] => DeletesOwnOnly(r) /\ LeavesOthers(r)]_vars

(***************************************************************************)
(* The client: the App component.  Its handlers are operators on the       *)
(* component state f; an invocation of handleSubmit suspended at an await  *)
(* is an entry of f.pending.                                               *)
(***************************************************************************)
\* The files the user chooses among.
Files == {File("a.mp4"), File("b.mp4"), File("c.mp4")}

\* Invocations of handleSubmit that the model lets be suspended at once.
MaxInFlight == 2

\* What the server may answer to the fetch: the analysis, an analysis with
\* members missing, its two error bodies, or an error page that is not JSON.
Responses ==
    { [status |-> 200, body |-> JSONStringify(ExamplePayload)],
      [status |-> 200, body |-> JSONStringify(PartialPayload)],
      [status |-> 500, body |-> FailedBody],
      [status |-> 400, body |-> NoFileBody],
      DefaultError }

\* response.ok
Ok(response) == response.status >= 200 /\ response.status <= 299

\* handleFileChange: event.target.files[0] is file, Null when the selection
\* was emptied.
handleFileChange(f, file) ==
    IF file # Null
    THEN [f EXCEPT !.selectedFile = file,
                   !.fileName = file.s,
                   !.analysisResult = Null,
                   !.resultOf = Null,
                   !.error = Null]
    ELSE f

\* handleSubmit up to its first await: fetch is called with the selected
\* file in the form data.
handleSubmit(f) ==
    IF f.selectedFile = Null
    THEN [f EXCEPT !.error = JStr("Please select a video file first.")]
    ELSE [f EXCEPT !.isLoading = TRUE,
                   !.error = Null,
                   !.analysisResult = Null,
                   !.resultOf = Null,
                   !.pending = Append(@, [pc |-> "fetch", file |-> f.selectedFile,
                                          response |-> NoResponse])]

\* The invocation at place i of pending has run to its end.
Remove(pending, i) ==
    [j \in 1..(Len(pending) - 1) |-> IF j < i THEN pending[j] ELSE pending[j + 1]]

\* finally: setIsLoading(false), and the invocation returns.
finally(f, i) == [f EXCEPT !.isLoading = FALSE, !.pending = Remove(@, i)]

\* catch (err): setError(err.message), then finally.
catch(f, i, message) == finally([f EXCEPT !.error = JStr(message)], i)

\* errData.error || 'An unknown error occurred.'
ErrorMessage(errData) ==
    IF errData.t = "obj" /\ HasKey(errData.m, "error") /\ Get(errData, "error").t = "str"
       /\ Get(errData, "error").s # ""
    THEN Get(errData, "error").s
    ELSE "An unknown error occurred."

\* handleSubmit from the settling of response.json() on: the body was read
\* and parsed as JSON, or the parse failed.
AfterJson(f, i) ==
    LET response == f.pending[i].response
        parsed == JSONParse(response.body)
    IN  IF ~parsed.ok THEN catch(f, i, "SyntaxError: Unexpected token")
        ELSE IF ~Ok(response) THEN catch(f, i, ErrorMessage(parsed.val))
        ELSE finally([f EXCEPT !.analysisResult = parsed.val,
                               !.resultOf = f.pending[i].file], i)

\* Mutant: the submit button is never disabled.
NeverDisabled(f) == FALSE

\* disabled={isLoading || !selectedFile} on the submit button.
Disabled(f) == f.isLoading \/ f.selectedFile = Null

ServerUnchanged == UNCHANGED <<req, disk, remote, process>>

\* The user chooses a file, or empties the selection; the file input is
\* enabled at all times.
FileChange ==
    /\ \E file \in Files \cup {Null} : form' = handleFileChange(form, file)
    /\ ServerUnchanged

\* The user presses the submit button.
Submit ==
    /\ ~Disabled(form)
    /\ Len(form.pending) < MaxInFlight
    /\ form' = handleSubmit(form)
    /\ ServerUnchanged

\* The response headers arrive; handleSubmit goes on to await response.json().
FetchResolves ==
    /\ \E i \in 1..Len(form.pending) :
           /\ form.pending[i].pc = "fetch"
           /\ \E response \in Responses :
                  form' = [form EXCEPT !.pending[i].pc = "json",
                                       !.pending[i].response = response]
    /\ ServerUnchanged

\* The server cannot be reached, or the connection breaks.
FetchRejects ==
    /\ \E i \in 1..Len(form.pending) :
           /\ form.pending[i].pc = "fetch"
           /\ form' = catch(form, i, "Failed to fetch")
    /\ ServerUnchanged

\* response.json() settles.
JsonSettles ==
    /\ \E i \in 1..Len(form.pending) :
           /\ form.pending[i].pc = "json"
           /\ form' = AfterJson(form, i)
    /\ ServerUnchanged

ClientNext == FileChange \/ Submit \/ FetchResolves \/ FetchRejects \/ JsonSettles

ClientSpec == Init /\ [][ClientNext]_vars

\* C17: whenever an analysis result is displayed it is the analysis of the
\* file that is selected now, also when the selection changed while the
\* request was in flight.
C17_ResultOfSelectedFile ==
    form.analysisResult # Null => form.resultOf = form.selectedFile

\* C18: error and analysisResult are never both set; isLoading is true
\* exactly while an invocation of handleSubmit awaits its fetch, and is false
\* after every fetch that settled; at most one request is in flight.
C18_FormInvariants ==
    /\ [](/\ ~(form.error # Null /\ form.analysisResult # Null)
          /\ form.isLoading <=> form.pending # <<>>
          /\ Len(form.pending) <= 1)
    /\ [][Len(form'.pending) < Len(form.pending) => ~form'.isLoading]_vars

\* A fetch has settled with the server's error while an earlier result was
\* reset by the submission: the error is shown alone and the button is free.
C18_Witness ==
    /\ form.error = JStr("Failed to analyze the video. Please check the server logs.")
    /\ form.analysisResult = Null
    /\ ~form.isLoading
    /\ form.pending = <<>>

====
